---------------------------- MODULE Spec2Model ----------------------------
(***************************************************************************)
(* A model of markusmoss.MarkusMoss (src/markusmoss/markusmoss.py): the    *)
(* report download, the index-table extractor, the report merger, the      *)
(* final-report (case) assembler and the action dispatch of run().         *)
(*                                                                         *)
(* Strings are sequences of tokens: a token is one character ("/", " ",    *)
(* "(", "%", a digit, ...) or a run of ordinary characters that the code   *)
(* never looks inside ("main.c", "submission_files", ".html").  A path is  *)
(* a sequence of components, each component a string.  Python values whose *)
(* type matters are tagged: PyStr(s), PyInt(n).                            *)
(***************************************************************************)
EXTENDS Integers, Sequences, FiniteSets, TLC

VARIABLES
    files,      \* the filesystem's regular files: path -> content
    dirs,       \* the filesystem's directories: a set of paths
    gen_pos,    \* _parse_html_report: rows of the table consumed so far
    gen_state,  \* _parse_html_report: "fresh", "active", "exhausted" or "raised"
    yielded,    \* the records a consumer has received from the generator
    merge,      \* _copy_moss_report: its position and the template it is filling
    force,      \* self.force of the MarkusMoss instance of the current run
    runs,       \* how many times the action under study has been called
    pc,         \* write_final_report: "idle", or the statement of the loop it is at
    case_i,     \* write_final_report: the enumerate index i of the current record
    group_k,    \* write_final_report: which of the two groups is copied next
    cur,        \* write_final_report: the current record
    outcomes,   \* how each call so far ended: "skipped", "done" or "raised"
    events,     \* the statements of the loop completed in the last run, in order
    stderr,     \* paths _copy_file reported missing on sys.stderr
    web,        \* the similarity service: url -> document
    todo,       \* _moss_download: the linked urls not fetched yet
    frames_left, \* _moss_download: the frames of the current page not fetched yet
    cur_page,   \* _moss_download: url_, the linked document whose frames are fetched
    fetched,    \* the requests.get issued so far: url, why, and where it was saved
    run_actions, \* run(): its argument and the list it iterates over
    run_i,      \* run(): how many names of the list it has taken
    invoked     \* run(): the attributes it has called so far, in order

fsVars == <<files, dirs>>
genVars == <<gen_pos, gen_state, yielded>>
wfrVars == <<force, runs, pc, case_i, group_k, cur, outcomes, events, stderr>>
dlVars == <<web, todo, frames_left, cur_page, fetched>>
runVars == <<run_actions, run_i, invoked>>
vars == <<files, dirs, gen_pos, gen_state, yielded, merge,
          force, runs, pc, case_i, group_k, cur, outcomes, events, stderr,
          web, todo, frames_left, cur_page, fetched, run_actions, run_i, invoked>>

\* ------------------------------------------------------------------ bounds
MaxRows == 3
MaxAnchors == 1
MaxRuns == 2
MaxActions == 2

\* ------------------------------------------------------- strings and values
PyStr(s) == [kind |-> "str", val |-> s]
PyInt(n) == [kind |-> "int", val |-> n]
PyNone == [kind |-> "none", val |-> <<>>]
PyList(l) == [kind |-> "list", val |-> l]
\* run(): no call yet
NoRun == [arg |-> PyNone, list |-> <<>>]

Digits == <<"0", "1", "2", "3", "4", "5", "6", "7", "8", "9">>
IsDigit(t) == \E d \in 1..10 : Digits[d] = t
DigitVal(t) == (CHOOSE d \in 1..10 : Digits[d] = t) - 1
IsSpace(t) == t = " "

RECURSIVE DigitsToNat(_)
DigitsToNat(s) ==
    IF s = <<>> THEN 0
    ELSE 10 * DigitsToNat(SubSeq(s, 1, Len(s) - 1)) + DigitVal(s[Len(s)])

RECURSIVE NatToStr(_)
\* str(n) for n >= 0, as csv.writer and f-strings render an int
NatToStr(n) ==
    IF n < 10 THEN <<Digits[n + 1]>>
    ELSE NatToStr(n \div 10) \o <<Digits[(n % 10) + 1]>>

RECURSIVE Strip(_)
\* str.strip(): leading and trailing whitespace removed
Strip(s) ==
    IF s = <<>> THEN s
    ELSE IF IsSpace(s[1]) THEN Strip(Tail(s))
    ELSE IF IsSpace(s[Len(s)]) THEN Strip(SubSeq(s, 1, Len(s) - 1))
    ELSE s

\* int(s) on an already stripped string: the value, or ValueError
PyIntOf(s) ==
    IF s # <<>> /\ \A k \in 1..Len(s) : IsDigit(s[k])
    THEN [ok |-> TRUE, val |-> DigitsToNat(s)]
    ELSE [ok |-> FALSE, val |-> 0]

\* os.path.basename: what follows the last "/"
Basename(s) ==
    LET slashes == {k \in 1..Len(s) : s[k] = "/"}
    IN  IF slashes = {} THEN s
        ELSE SubSeq(s, (CHOOSE k \in slashes : \A j \in slashes : j <= k) + 1, Len(s))

\* ------------------------------------------------------- class constants
SUBMISSION_FILES_DIR == <<"submission_files">>
MOSS_REPORT_DIR == <<"moss_report">>
MOSS_REPORT_DOWNLOAD == <<"report">>

moss_report_dir == <<MOSS_REPORT_DIR>>
moss_report_download_dir == moss_report_dir \o <<MOSS_REPORT_DOWNLOAD>>
submission_files_dir == <<SUBMISSION_FILES_DIR>>
IndexPath == moss_report_download_dir \o << <<"index", ".html">> >>

File(kind, val) == [kind |-> kind, val |-> val]
IsFile(fs, p) == p \in DOMAIN fs

\* ------------------------------------------------------ filesystem helpers
RECURSIVE Prefixes(_)
Prefixes(p) == IF p = <<>> THEN {} ELSE {p} \cup Prefixes(SubSeq(p, 1, Len(p) - 1))

\* os.makedirs(p, exist_ok=True)
MakeDirs(ds, p) == ds \cup Prefixes(p)
Dirname(p) == SubSeq(p, 1, Len(p) - 1)
\* open(p, "w") and a write of the whole content
WriteFile(fs, p, c) == [q \in (DOMAIN fs) \cup {p} |-> IF q = p THEN c ELSE fs[q]]

\* ------------------------------------------------------ _copy_moss_report
Extensions == {".html", ".pdf"}
\* os.path.splitext(name)[0]
SplitExtBase(name) ==
    IF Len(name) > 1 /\ name[Len(name)] \in Extensions
    THEN SubSeq(name, 1, Len(name) - 1) ELSE name

\* f"{base}-top.html" and f"{base}-{match_i}.html", beside base_html_file
TopFile(base_html_file) ==
    Dirname(base_html_file)
        \o <<SplitExtBase(base_html_file[Len(base_html_file)]) \o <<"-", "top", ".html">> >>
SideFile(base_html_file, match_i) ==
    Dirname(base_html_file)
        \o <<SplitExtBase(base_html_file[Len(base_html_file)])
                \o <<"-">> \o NatToStr(match_i) \o <<".html">> >>

\* re.match(rf'{base_basename}-([01])\.html#(\d+)', href): anchored at the start
\* only, the digits a maximal run
LinkRegexMatch(base_basename, href) ==
    LET n == Len(base_basename)
    IN  IF /\ Len(href) >= n + 5
           /\ SubSeq(href, 1, n) = base_basename
           /\ href[n + 1] = "-"
           /\ href[n + 2] \in {"0", "1"}
           /\ href[n + 3] = ".html"
           /\ href[n + 4] = "#"
           /\ IsDigit(href[n + 5])
        THEN LET run == {q \in (n + 5)..Len(href) : \A k \in (n + 5)..q : IsDigit(href[k])}
                 last == CHOOSE q \in run : \A j \in run : j <= q
             IN  [matched |-> TRUE, match_file |-> href[n + 2],
                  match_num |-> SubSeq(href, n + 5, last)]
        ELSE [matched |-> FALSE]

\* f"#match-{match_file}-{match_num}"
MatchHref(match_file, match_num) == <<"#", "match", "-", match_file, "-">> \o match_num
\* the id built from match_file, which line 465 has just overwritten with the
\* side the link points to, instead of from the loop index
MatchIdLinkedSide(match_i, m, name) ==
    <<"match", "-">> \o (IF m.matched THEN <<m.match_file>> ELSE NatToStr(match_i))
        \o <<"-">> \o name
\* line 469, f"match-{match_i}-{a['name']}": match_i is the loop index of line 458;
\* m is the match of line 465, in scope there and not used
MatchId(match_i, m, name) == <<"match", "-">> \o NatToStr(match_i) \o <<"-">> \o name

\* an <a> element; an absent attribute is <<>> (a.get(...) is falsy for both)
Anchor(href, name) == [href |-> href, name |-> name, target |-> <<>>, id |-> <<>>]

\* the loop body of lines 451-455 on one <a> of the navigation table
RewriteTopLink(base_basename, a) ==
    LET m == LinkRegexMatch(base_basename, Basename(a.href))
    IN  IF ~m.matched THEN [ok |-> FALSE, a |-> a]
        ELSE [ok |-> TRUE,
              a |-> [a EXCEPT !.href = MatchHref(m.match_file, m.match_num),
                              !.target = <<"_self">>]]

\* lines 463-469 with `if m:` in front of the rewrite: a link off the pattern is
\* left as it is instead of raising
RewriteSideAnchorLenient(base_basename, match_i, a) ==
    LET m == IF a.href # <<>> THEN LinkRegexMatch(base_basename, a.href)
             ELSE [matched |-> FALSE]
        a1 == IF m.matched
              THEN [a EXCEPT !.href = MatchHref(m.match_file, m.match_num),
                             !.target = <<"_self">>]
              ELSE a
    IN  [ok |-> TRUE,
         a |-> IF a.name # <<>> THEN [a1 EXCEPT !.id = MatchId(match_i, m, a.name)] ELSE a1]

\* the loop body of lines 463-469 on one <a> of side match_i: ok is FALSE when
\* re.match returns None and .groups() raises AttributeError
RewriteSideAnchor(base_basename, match_i, a) ==
    LET m == IF a.href # <<>> THEN LinkRegexMatch(base_basename, a.href)
             ELSE [matched |-> FALSE]
        a1 == IF a.href # <<>> /\ m.matched
              THEN [a EXCEPT !.href = MatchHref(m.match_file, m.match_num),
                             !.target = <<"_self">>]
              ELSE a
        a2 == IF a.name # <<>>
              THEN [a1 EXCEPT !.id = MatchId(match_i, m, a.name)]
              ELSE a1
    IN  IF a.href # <<>> /\ ~m.matched THEN [ok |-> FALSE, a |-> a]
        ELSE [ok |-> TRUE, a |-> a2]

EmptyTemplate == [title |-> <<>>, top |-> <<>>, match |-> << <<>>, <<>> >>, h3 |-> <<0, 0>>]
MergeIdle == [phase |-> "idle", exc |-> "", template |-> EmptyTemplate]
MergeBegin == [phase |-> "base", exc |-> "", template |-> EmptyTemplate]
MergeRaise(st, exc) == [st EXCEPT !.phase = "raised", !.exc = exc]

\* One with-block (or one round of the side loop) of _copy_moss_report.
MergeStep(fs, base_html_file, st) ==
    LET base_basename == SplitExtBase(base_html_file[Len(base_html_file)])
    IN  CASE st.phase = "base" ->
                IF ~IsFile(fs, base_html_file) THEN MergeRaise(st, "FileNotFoundError")
                ELSE [st EXCEPT !.phase = "top",
                                !.template.title = fs[base_html_file].val.title]
          [] st.phase = "top" ->
                IF ~IsFile(fs, TopFile(base_html_file))
                THEN MergeRaise(st, "FileNotFoundError")
                ELSE LET links == fs[TopFile(base_html_file)].val.anchors
                         out == [k \in 1..Len(links) |-> RewriteTopLink(base_basename, links[k])]
                     IN  IF \E k \in 1..Len(links) : ~out[k].ok
                         THEN MergeRaise(st, "AttributeError")
                         ELSE [st EXCEPT !.phase = "side0",
                                         !.template.top = [k \in 1..Len(links) |-> out[k].a]]
          [] st.phase \in {"side0", "side1"} ->
                LET match_i == IF st.phase = "side0" THEN 0 ELSE 1
                IN  IF ~IsFile(fs, SideFile(base_html_file, match_i))
                    THEN MergeRaise(st, "FileNotFoundError")
                    ELSE LET body == fs[SideFile(base_html_file, match_i)].val.anchors
                             out == [k \in 1..Len(body) |->
                                        RewriteSideAnchor(base_basename, match_i, body[k])]
                         IN  IF \E k \in 1..Len(body) : ~out[k].ok
                             THEN MergeRaise(st, "AttributeError")
                             ELSE [st EXCEPT
                                     !.phase = IF match_i = 0 THEN "side1" ELSE "write",
                                     !.template.match[match_i + 1] =
                                         [k \in 1..Len(body) |-> out[k].a],
                                     !.template.h3[match_i + 1] = 1]
          [] OTHER -> st

RECURSIVE MergeRun(_, _, _)
MergeRun(fs, base_html_file, st) ==
    IF st.phase \in {"write", "raised"} THEN st
    ELSE MergeRun(fs, base_html_file, MergeStep(fs, base_html_file, st))

\* _copy_moss_report as a whole: the filesystem after it, and whether it raised
CopyMossReport(fs, base_html_file, destination) ==
    LET st == MergeRun(fs, base_html_file, MergeBegin)
    IN  IF st.phase = "raised" THEN [raised |-> TRUE, exc |-> st.exc, fs |-> fs]
        ELSE [raised |-> FALSE, exc |-> "",
              fs |-> WriteFile(fs, destination, File("html", st.template))]

\* --------------------------------------------------------- _report_regex
\* re.match(rf"{SUBMISSION_FILES_DIR}/([^/]+)/(.*)\s\((\d+)\%\)", label):
\* anchored at the start only; ([^/]+) is the run up to the next "/"; (.*) is
\* greedy, so the LAST " (<digits>%)" of the label closes the match.
PercentAt(s, p) ==
    \* the digits d with s[p] a space, then "(", d, "%", ")" -- <<>> when none
    IF p + 1 <= Len(s) /\ IsSpace(s[p]) /\ s[p + 1] = "("
    THEN LET ends == {q \in (p + 2)..(Len(s) - 2) :
                         /\ \A k \in (p + 2)..q : IsDigit(s[k])
                         /\ s[q + 1] = "%" /\ s[q + 2] = ")"}
         IN  IF ends = {} THEN <<>>
             ELSE SubSeq(s, p + 2, CHOOSE q \in ends : TRUE)
    ELSE <<>>

ReportRegexMatch(label) ==
    LET n == Len(label)
        slashes == {k \in 3..n : label[k] = "/"}
    IN  IF n < 3 \/ label[1] # SUBMISSION_FILES_DIR[1] \/ label[2] # "/" \/ slashes = {}
        THEN [matched |-> FALSE]
        ELSE LET s2 == CHOOSE k \in slashes : \A j \in slashes : k <= j
                 starts == {p \in (s2 + 1)..n : PercentAt(label, p) # <<>>}
             IN  IF s2 = 3 \/ starts = {} THEN [matched |-> FALSE]
                 ELSE LET p == CHOOSE q \in starts : \A j \in starts : j <= q
                      IN  [matched |-> TRUE,
                           group |-> SubSeq(label, 3, s2 - 1),
                           file |-> SubSeq(label, s2 + 1, p - 1),
                           percent |-> PercentAt(label, p)]

\* ---------------------------------------------------- _parse_html_report
\* One non-header row: the record it yields, or the exception it raises.
ParseRow(row) ==
    IF Len(row.tds) # 3 THEN [kind |-> "raise", exc |-> "ValueError"]
    ELSE
    LET submission1 == row.tds[1]
        submission2 == row.tds[2]
        lines == row.tds[3]
    IN  IF ~submission1.link THEN [kind |-> "raise", exc |-> "AttributeError"]
        ELSE
        LET match_file == moss_report_download_dir \o <<Basename(submission1.href)>>
            matched_lines == PyIntOf(Strip(lines.string))
            m1 == ReportRegexMatch(submission1.string)
            m2 == ReportRegexMatch(submission2.string)
        IN  IF ~matched_lines.ok THEN [kind |-> "raise", exc |-> "ValueError"]
            ELSE IF ~m1.matched THEN [kind |-> "raise", exc |-> "AttributeError"]
            ELSE IF ~submission2.link \/ ~m2.matched
                 THEN [kind |-> "raise", exc |-> "AttributeError"]
            ELSE [kind |-> "yield",
                  rec |-> [match_file |-> match_file,
                           group1 |-> m1.group,
                           group2 |-> m2.group,
                           similarity |-> PyStr(m1.percent),
                           matched_lines |-> PyInt(matched_lines.val)]]

RECURSIVE GenNextFrom(_, _)
\* next(report_iter) with pos rows already consumed: header rows are skipped
\* (continue), the first other row yields or raises, the end of the table stops.
GenNextFrom(table, pos) ==
    IF pos >= Len(table) THEN [kind |-> "stop", pos |-> pos]
    ELSE LET row == table[pos + 1]
         IN  IF row.th THEN GenNextFrom(table, pos + 1)
             ELSE LET r == ParseRow(row)
                  IN  IF r.kind = "raise"
                      THEN [kind |-> "raise", pos |-> pos + 1, exc |-> r.exc]
                      ELSE [kind |-> "yield", pos |-> pos + 1, rec |-> r.rec]

\* the same, taking the first row for the header without looking at it
GenNextDropFirst(table, pos) == GenNextFrom(table, IF pos = 0 THEN 1 ELSE pos)

RECURSIVE GenNextSkipMalformed(_, _)
\* the same, passing over a row that does not parse instead of raising
GenNextSkipMalformed(table, pos) ==
    LET r == GenNextFrom(table, pos)
    IN  IF r.kind = "raise" THEN GenNextSkipMalformed(table, r.pos) ELSE r

GenNext(table, pos) == GenNextFrom(table, pos)

NoRecord == [match_file |-> <<>>, group1 |-> <<>>, group2 |-> <<>>,
             similarity |-> PyStr(<<>>), matched_lines |-> PyInt(0)]

\* ------------------------------------------------------- index documents
Cell(href, string) == [link |-> TRUE, href |-> href, string |-> string]
TextCell(string) == [link |-> FALSE, href |-> <<>>, string |-> string]
Row(tds) == [th |-> FALSE, tds |-> tds]
HeaderRow == [th |-> TRUE, tds |-> <<>>]

ReportUrl == <<"http:", "/", "/", "moss", "/", "results", "/", "1">>
Href(name) == ReportUrl \o <<"/">> \o name

LblA == <<"submission_files", "/", "a", "/", "main.c", " ", "(", "8", "3", "%", ")">>
LblB == <<"submission_files", "/", "b", "/", "main.c", " ", "(", "7", "1", "%", ")">>
\* a relative path that itself holds " (5%)" and a "/"
LblC == <<"submission_files", "/", "c", "/", "my", " ", "(", "5", "%", ")", "/", "f.c",
          " ", "(", "1", "0", "0", "%", ")">>
LblNoRoot == <<"other_files", "/", "a", "/", "main.c", " ", "(", "8", "3", "%", ")">>
LblNoPercent == <<"submission_files", "/", "a", "/", "main.c">>

CellA == Cell(Href(<<"match0", ".html">>), LblA)
CellB == Cell(Href(<<"match0", ".html">>), LblB)
RowAB == Row(<<CellA, CellB, TextCell(<<"4", "7">>)>>)
RowBA == Row(<<Cell(Href(<<"match1", ".html">>), LblB),
               Cell(Href(<<"match1", ".html">>), LblA),
               TextCell(<<" ", "1", "2", " ">>)>>)
RowCA == Row(<<Cell(Href(<<"match2", ".html">>), LblC),
               Cell(Href(<<"match2", ".html">>), LblA), TextCell(<<"0">>)>>)
RowTwoCells == Row(<<CellA, CellB>>)
RowFourCells == Row(<<CellA, CellB, TextCell(<<"4", "7">>), TextCell(<<"x">>)>>)
RowBadLabelA == Row(<<Cell(Href(<<"match0", ".html">>), LblNoRoot), CellB,
                      TextCell(<<"4", "7">>)>>)
RowBadLabelB == Row(<<CellA, Cell(Href(<<"match0", ".html">>), LblNoPercent),
                      TextCell(<<"4", "7">>)>>)
RowBadLines == Row(<<CellA, CellB, TextCell(<<"x">>)>>)

\* submission A is in the directory of the group the platform calls "g 1"
LblD == <<"submission_files", "/", "g", "_", "1", "/", "main.c", " ", "(", "6", "4", "%", ")">>
RowDA == Row(<<Cell(Href(<<"match0", ".html">>), LblD), CellA, TextCell(<<"5">>)>>)
WellFormedRows == {HeaderRow, RowAB, RowBA, RowCA, RowDA}
MalformedRows == {RowTwoCells, RowFourCells, RowBadLabelA, RowBadLabelB, RowBadLines}
ExtractRows == WellFormedRows \cup MalformedRows

Tables(rows) == UNION {[1..n -> rows] : n \in 0..MaxRows}

\* the saved index document: its results table and the links outside the table
IndexDoc(table, links) == File("index", [table |-> table, links |-> links])
\* parsed_html.body.find("table").find_all("tr")
IndexTable == files[IndexPath].val.table

\* ------------------------------------------------ the extractor on its own
InitExtract ==
    /\ \E t \in Tables(ExtractRows) : files = (IndexPath :> IndexDoc(t, {}))
    /\ dirs = {moss_report_dir, moss_report_download_dir}
    /\ gen_pos = 0
    /\ gen_state = "fresh"
    /\ yielded = <<>>
    /\ merge = MergeIdle
    /\ force = FALSE
    /\ runs = 0
    /\ pc = "idle"
    /\ case_i = 0
    /\ group_k = 1
    /\ cur = NoRecord
    /\ outcomes = <<>>
    /\ events = <<>>
    /\ stderr = {}
    /\ web = <<>>
    /\ todo = {}
    /\ frames_left = <<>>
    /\ cur_page = <<>>
    /\ fetched = {}
    /\ run_actions = NoRun
    /\ run_i = 0
    /\ invoked = <<>>

\* one next() of a consumer that collects the generator's records
ExtractNext ==
    /\ gen_state \in {"fresh", "active"}
    /\ LET r == GenNext(IndexTable, gen_pos)
       IN  /\ gen_pos' = r.pos
           /\ gen_state' = CASE r.kind = "yield" -> "active"
                             [] r.kind = "raise" -> "raised"
                             [] OTHER -> "exhausted"
           /\ yielded' = IF r.kind = "yield" THEN Append(yielded, r.rec) ELSE yielded
    /\ UNCHANGED <<fsVars, merge, wfrVars, dlVars, runVars>>

NextExtract == ExtractNext

SpecExtract == InitExtract /\ [][NextExtract]_vars

\* ------------------------------------------------- the merger on its own
FINAL_REPORT_DIR == <<"final_report">>
FINAL_REPORT_CASE_OVERVIEW == <<"case_overview", ".csv">>
markus_assignment == <<"A1">>
final_report_dir == <<FINAL_REPORT_DIR>>
assignment_report_dir == final_report_dir \o <<markus_assignment>>

\* f"case_{i+1}" for the enumerate index i
CaseNameZeroBased(i) == <<"case_">> \o NatToStr(i)
CaseName(i) == <<"case_">> \o NatToStr(i + 1)
CaseDir(i) == assignment_report_dir \o <<CaseName(i)>>
MossHtml(case_dir) == case_dir \o << <<"moss", ".html">> >>

Html(title, anchors) ==
    File("html", [title |-> title, anchors |-> anchors, frames |-> <<>>])
\* a frameset document: <frame src=...> elements and no body
FrameSet(title, frames) ==
    File("html", [title |-> title, anchors |-> <<>>, frames |-> frames])
FrameSrcs(ref) == << <<ref, "-", "top", ".html">>, <<ref, "-", "0", ".html">>,
                    <<ref, "-", "1", ".html">> >>
MatchFile(ref) == moss_report_download_dir \o << <<ref, ".html">> >>

LinkTo(ref, side, num) == <<ref, "-", side, ".html", "#">> \o num
SideAnchors ==
    { Anchor(LinkTo("match0", "1", <<"0">>), <<"0">>),
      Anchor(LinkTo("match0", "0", <<"0">>), <<"0">>),
      Anchor(<<>>, <<"1">>),
      Anchor(<<"other", ".html", "#", "0">>, <<>>),
      Anchor(LinkTo("match0", "0", <<"1", "x">>), <<>>) }
TopAnchors ==
    { Anchor(Href(LinkTo("match0", "0", <<"0">>)), <<>>),
      Anchor(LinkTo("match0", "1", <<"1">>), <<>>),
      Anchor(Href(LinkTo("match1", "0", <<"0">>)), <<>>) }
Docs(anchors) == UNION {[1..n -> anchors] : n \in 0..MaxAnchors}

MergeSource == MatchFile("match0")
MergeDest == MossHtml(CaseDir(0))
FramePaths(base_html_file) ==
    {base_html_file, TopFile(base_html_file),
     SideFile(base_html_file, 0), SideFile(base_html_file, 1)}

\* fs without the files of `gone`
RemoveFiles(fs, gone) == [q \in (DOMAIN fs) \ gone |-> fs[q]]

InitMerge ==
    /\ \E top \in Docs(TopAnchors), s0 \in Docs(SideAnchors), s1 \in Docs(SideAnchors),
          gone \in {{}} \cup {{f} : f \in FramePaths(MergeSource)} :
          files = RemoveFiles(
                    MergeSource :> FrameSet(<<"Matches", " ", "a", "b">>, FrameSrcs("match0"))
                    @@ TopFile(MergeSource) :> Html(<<>>, top)
                    @@ SideFile(MergeSource, 0) :> Html(<<>>, s0)
                    @@ SideFile(MergeSource, 1) :> Html(<<>>, s1),
                    gone)
    /\ dirs = MakeDirs(MakeDirs({}, moss_report_download_dir), CaseDir(0))
    /\ gen_pos = 0
    /\ gen_state = "fresh"
    /\ yielded = <<>>
    /\ merge = MergeIdle
    /\ force = FALSE
    /\ runs = 0
    /\ pc = "idle"
    /\ case_i = 0
    /\ group_k = 1
    /\ cur = NoRecord
    /\ outcomes = <<>>
    /\ events = <<>>
    /\ stderr = {}
    /\ web = <<>>
    /\ todo = {}
    /\ frames_left = <<>>
    /\ cur_page = <<>>
    /\ fetched = {}
    /\ run_actions = NoRun
    /\ run_i = 0
    /\ invoked = <<>>

\* the call _copy_moss_report(match_file, destination)
MergeCall ==
    /\ merge.phase = "idle"
    /\ merge' = MergeBegin
    /\ UNCHANGED <<fsVars, genVars, wfrVars, dlVars, runVars>>

\* lines 444-473: one with-block
MergeAdvance ==
    /\ merge.phase \in {"base", "top", "side0", "side1"}
    /\ merge' = MergeStep(files, MergeSource, merge)
    /\ UNCHANGED <<fsVars, genVars, wfrVars, dlVars, runVars>>

\* lines 474-475: the template is serialised to the destination
MergeWrite ==
    /\ merge.phase = "write"
    /\ files' = WriteFile(files, MergeDest, File("html", merge.template))
    /\ merge' = [merge EXCEPT !.phase = "done"]
    /\ UNCHANGED <<dirs, genVars, wfrVars, dlVars, runVars>>

NextMerge == MergeCall \/ MergeAdvance \/ MergeWrite

SpecMerge == InitMerge /\ [][NextMerge]_vars

\* ------------------------------------------------------ write_final_report
PDF_SUBMISSION_FILES_DIR == <<"pdf_submission_files">>
STARTER_FILES_DIR == <<"starter_files">>
GROUP_MEMBERSHIP_FILE == <<"group_data", ".csv">>
OVERVIEW_INFO == << <<"case">>, <<"groups">>, <<"similarity (%)">>, <<"matched_lines">> >>
USER_INFO == <<"group_name", "user_name", "first_name", "last_name", "email", "id_number">>
starter_files_dir == <<STARTER_FILES_DIR>>
OverviewPath == assignment_report_dir \o <<FINAL_REPORT_CASE_OVERVIEW>>

\* _clean_filename: filename.replace(" ", "_")
CleanFilename(filename) ==
    [k \in 1..Len(filename) |-> IF filename[k] = " " THEN "_" ELSE filename[k]]
\* lines 84-85: the name of the directory a group's submission is unpacked to
SubmissionDirName(group_name) == CleanFilename(group_name)

\* _file_to_pdf on a path: f"{source}.pdf"
FileToPdf(p) == [p EXCEPT ![Len(p)] = @ \o <<".pdf">>]

\* str(value), as csv.writer renders a field
CsvField(v) == IF v.kind = "int" THEN NatToStr(v.val) ELSE v.val

\* the grading platform's answers (api.get_groups, api.get_all_roles)
GroupData ==
    << [group_name |-> <<"a">>, id |-> 1, members |-> <<1, 2>>],
       [group_name |-> <<"b">>, id |-> 2, members |-> <<3>>],
       [group_name |-> <<"c">>, id |-> 3, members |-> <<>>],
       [group_name |-> <<"g", " ", "1">>, id |-> 4, members |-> <<4>>] >>
RoleUser(role_id) ==
    [group_name |-> <<>>, user_name |-> <<"u">> \o NatToStr(role_id),
     first_name |-> <<"f">>, last_name |-> <<"l">>, email |-> <<"e">>,
     id_number |-> NatToStr(role_id)]

\* _get_group_membership_info()[group]: a defaultdict(list), keyed by group_name
MembershipData(group) ==
    LET hits == {k \in 1..Len(GroupData) : GroupData[k].group_name = group}
    IN  IF hits = {} THEN <<>>
        ELSE LET g == GroupData[CHOOSE k \in hits : TRUE]
             IN  [m \in 1..Len(g.members) |->
                    [RoleUser(g.members[m]) EXCEPT !.group_name = g.group_name]]

\* glob.iglob(os.path.join(submission_files_dir, group, "**/*"), recursive=True):
\* every file and every directory below the group's directory
GlobGroup(fs, ds, group) ==
    {p \in (DOMAIN fs) \cup ds :
        Len(p) > 2 /\ p[1] = SUBMISSION_FILES_DIR /\ p[2] = group}

Perms(S) ==
    {f \in [1..Cardinality(S) -> S] : \A x, y \in 1..Cardinality(S) : f[x] = f[y] => x = y}

\* _copy_file without its try/except: a missing source raises
CopyFileUncaught(st, source, dest) ==
    IF source \in st.ds \/ ~IsFile(st.fs, source) THEN [st EXCEPT !.raised = TRUE]
    ELSE [st EXCEPT !.fs = WriteFile(st.fs, dest, st.fs[source])]
\* _copy_file(source, dest) on the state st = [fs, ds, err, raised]: shutil.copy
\* of a missing source is reported on stderr, of a directory raises
\* IsADirectoryError, which nothing catches.
CopyFile(st, source, dest) ==
    IF source \in st.ds THEN [st EXCEPT !.raised = TRUE]
    ELSE IF ~IsFile(st.fs, source) THEN [st EXCEPT !.err = @ \cup {source}]
    ELSE [st EXCEPT !.fs = WriteFile(st.fs, dest, st.fs[source])]

RECURSIVE CopyEntries(_, _, _, _)
\* the loop of _copy_submission_files over the entries in glob order
CopyEntries(st, group, destination, order) ==
    IF order = <<>> \/ st.raised THEN st
    ELSE LET abs_file == Head(order)
             rel_file == Tail(abs_file)
             rel_pdf == FileToPdf(rel_file)
             abs_pdf == <<PDF_SUBMISSION_FILES_DIR>> \o rel_pdf
             file_dest == destination \o <<group, <<"org">> >> \o Tail(rel_file)
             pdf_dest == destination \o <<group, <<"pdf">> >> \o Tail(rel_pdf)
             st1 == [st EXCEPT !.ds = MakeDirs(MakeDirs(@, Dirname(file_dest)),
                                               Dirname(pdf_dest))]
             st2 == CopyFile(st1, abs_file, file_dest)
             st3 == IF st2.raised THEN st2 ELSE CopyFile(st2, abs_pdf, pdf_dest)
         IN  CopyEntries(st3, group, destination, Tail(order))

\* _write_case_report on one group
WriteGroupReport(st, group, destination) ==
    [st EXCEPT !.ds = MakeDirs(@, destination \o <<group>>),
               !.fs = WriteFile(@, destination \o <<group, GROUP_MEMBERSHIP_FILE>>,
                                File("csv", <<USER_INFO>> \o MembershipData(group)))]

\* shutil.copytree(starter_files_dir, destination/starter_files, dirs_exist_ok=True)
CopyStarterFiles(st, destination) ==
    LET under(p) == Len(p) >= 1 /\ p[1] = STARTER_FILES_DIR
        moved(p) == destination \o p
        src_files == {p \in DOMAIN st.fs : under(p)}
    IN  [st EXCEPT
           !.ds = @ \cup {moved(p) : p \in {q \in st.ds : under(q)}},
           !.fs = [q \in (DOMAIN st.fs) \cup {moved(p) : p \in src_files} |->
                     IF \E p \in src_files : moved(p) = q
                     THEN st.fs[CHOOSE p \in src_files : moved(p) = q]
                     ELSE st.fs[q]]]

\* line 158: the whole action is skipped when the assignment's report directory
\* exists and force is off
WfrGateNever(ds, f) == FALSE
WfrSkips(ds, f) == assignment_report_dir \in ds /\ ~f

\* the overview row written right after the case directory is made
BodyOrderRowFirst == <<"mkdir", "row", "merge", "copy", "members">>
\* the statements of the loop body, lines 171-177, in program order
LoopBody == <<"mkdir", "merge", "copy", "members", "row">>
FirstStmt == LoopBody[1]
StmtAfter(stmt) ==
    LET k == CHOOSE j \in 1..Len(LoopBody) : LoopBody[j] = stmt
    IN  IF k = Len(LoopBody) THEN "next" ELSE LoopBody[k + 1]

Event(stmt) == [case |-> case_i, stmt |-> stmt, group |-> group_k]
CurCaseDir == CaseDir(case_i)
OverviewRows(fs) == fs[OverviewPath].val

\* an uncaught exception leaves write_final_report (the with-block closes the
\* overview file on the way out)
WfrAbort ==
    /\ pc' = "idle"
    /\ outcomes' = Append(outcomes, "raised")

\* a new MarkusMoss(force=f) and its write_final_report(), up to the loop
WfrCall(f) ==
    /\ pc = "idle"
    /\ runs < MaxRuns
    /\ runs' = runs + 1
    /\ force' = f
    /\ IF WfrSkips(dirs, f)
       THEN /\ outcomes' = Append(outcomes, "skipped")
            /\ UNCHANGED <<fsVars, genVars, pc, case_i, group_k, cur, events, stderr>>
       ELSE LET st0 == [fs |-> files, ds |-> MakeDirs(dirs, assignment_report_dir),
                        err |-> {}, raised |-> FALSE]
                st1 == IF starter_files_dir \in dirs
                       THEN CopyStarterFiles(st0, assignment_report_dir) ELSE st0
            IN  /\ dirs' = st1.ds
                /\ files' = WriteFile(st1.fs, OverviewPath, File("csv", <<OVERVIEW_INFO>>))
                /\ gen_pos' = 0
                /\ gen_state' = "fresh"
                /\ yielded' = <<>>
                /\ pc' = "next"
                /\ case_i' = -1
                /\ group_k' = 1
                /\ cur' = NoRecord
                /\ events' = <<>>
                /\ stderr' = {}
                /\ UNCHANGED outcomes
    /\ UNCHANGED <<merge, dlVars, runVars>>

\* line 167: the for statement asks the generator for its next record
WfrNext ==
    /\ pc = "next"
    /\ LET r == IF IsFile(files, IndexPath) THEN GenNext(IndexTable, gen_pos)
                ELSE [kind |-> "raise", pos |-> gen_pos, exc |-> "FileNotFoundError"]
       IN  /\ gen_pos' = r.pos
           /\ CASE r.kind = "yield" ->
                     /\ gen_state' = "active"
                     /\ yielded' = Append(yielded, r.rec)
                     /\ cur' = r.rec
                     /\ case_i' = case_i + 1
                     /\ pc' = FirstStmt
                     /\ UNCHANGED outcomes
                [] r.kind = "raise" ->
                     /\ gen_state' = "raised"
                     /\ WfrAbort
                     /\ UNCHANGED <<yielded, cur, case_i>>
                [] OTHER ->
                     /\ gen_state' = "exhausted"
                     /\ pc' = "idle"
                     /\ outcomes' = Append(outcomes, "done")
                     /\ UNCHANGED <<yielded, cur, case_i>>
    /\ UNCHANGED <<fsVars, merge, force, runs, group_k, events, stderr, dlVars, runVars>>

\* line 171: os.makedirs(case_dir, exist_ok=True)
WfrMakeCaseDir ==
    /\ pc = "mkdir"
    /\ dirs' = MakeDirs(dirs, CurCaseDir)
    /\ events' = Append(events, Event("mkdir"))
    /\ pc' = StmtAfter("mkdir")
    /\ UNCHANGED <<files, genVars, merge, force, runs, case_i, group_k, cur, outcomes, stderr, dlVars, runVars>>

\* line 172: self._copy_moss_report(match_file, case_dir/moss.html)
WfrMerge ==
    /\ pc = "merge"
    /\ LET r == CopyMossReport(files, cur.match_file, MossHtml(CurCaseDir))
       IN  IF r.raised
           THEN /\ WfrAbort
                /\ UNCHANGED <<files, events>>
           ELSE /\ files' = r.fs
                /\ events' = Append(events, Event("merge"))
                /\ pc' = StmtAfter("merge")
                /\ UNCHANGED outcomes
    /\ UNCHANGED <<dirs, genVars, merge, force, runs, case_i, group_k, cur, stderr, dlVars, runVars>>

\* lines 174-175: self._copy_submission_files(group, case_dir), one group a step
WfrCopy ==
    /\ pc = "copy"
    /\ LET group == IF group_k = 1 THEN cur.group1 ELSE cur.group2
       IN  \E order \in Perms(GlobGroup(files, dirs, group)) :
              LET st == CopyEntries([fs |-> files, ds |-> dirs, err |-> stderr,
                                     raised |-> FALSE], group, CurCaseDir, order)
              IN  /\ files' = st.fs
                  /\ dirs' = st.ds
                  /\ stderr' = st.err
                  /\ IF st.raised
                     THEN /\ WfrAbort
                          /\ UNCHANGED <<events, group_k>>
                     ELSE /\ events' = Append(events, Event("copy"))
                          /\ group_k' = IF group_k = 1 THEN 2 ELSE 1
                          /\ pc' = IF group_k = 1 THEN "copy" ELSE StmtAfter("copy")
                          /\ UNCHANGED outcomes
    /\ UNCHANGED <<genVars, merge, force, runs, case_i, cur, dlVars, runVars>>

\* line 176: self._write_case_report(groups, case_dir)
WfrMembers ==
    /\ pc = "members"
    /\ LET st0 == [fs |-> files, ds |-> dirs]
           st1 == WriteGroupReport(st0, cur.group1, CurCaseDir)
           st2 == WriteGroupReport(st1, cur.group2, CurCaseDir)
       IN  /\ files' = st2.fs
           /\ dirs' = st2.ds
    /\ events' = Append(events, Event("members"))
    /\ pc' = StmtAfter("members")
    /\ UNCHANGED <<genVars, merge, force, runs, case_i, group_k, cur, outcomes, stderr, dlVars, runVars>>

\* line 177: overview_writer.writerow((case, ";".join(groups), similarity, matched_lines))
WfrRow ==
    /\ pc = "row"
    /\ files' = [files EXCEPT ![OverviewPath].val =
                    Append(@, <<CaseName(case_i),
                                cur.group1 \o <<";">> \o cur.group2,
                                CsvField(cur.similarity),
                                CsvField(cur.matched_lines)>>)]
    /\ events' = Append(events, Event("row"))
    /\ pc' = StmtAfter("row")
    /\ UNCHANGED <<dirs, genVars, merge, force, runs, case_i, group_k, cur, outcomes, stderr, dlVars, runVars>>

\* -------------------------------------------------- the assembler's inputs
Bundle(ref) ==
    MatchFile(ref) :> FrameSet(<<"Matches", " ", "for", " ", ref>>, FrameSrcs(ref))
    @@ TopFile(MatchFile(ref)) :> Html(<<>>, <<Anchor(Href(LinkTo(ref, "0", <<"0">>)), <<>>)>>)
    @@ SideFile(MatchFile(ref), 0) :> Html(<<>>, <<Anchor(LinkTo(ref, "1", <<"0">>), <<"0">>)>>)
    @@ SideFile(MatchFile(ref), 1) :> Html(<<>>, <<Anchor(LinkTo(ref, "0", <<"0">>), <<"0">>)>>)

SubmissionPath(group, name) == <<SUBMISSION_FILES_DIR, group, name>>
PdfPath(group, name) == <<PDF_SUBMISSION_FILES_DIR>> \o FileToPdf(<<group, name>>)
Submission(group, name) ==
    SubmissionPath(group, name) :> File("source", name)
    @@ PdfPath(group, name) :> File("pdf", name)
StarterPath == <<STARTER_FILES_DIR, <<"org">>, <<"1">>, <<"starter.c">> >>

\* The workdir before write_final_report: a complete download, submissions and
\* PDF renditions of groups a, b, c and "g 1", starter files.
HealthyFiles(table) ==
    IndexPath :> IndexDoc(table, {})
    @@ Bundle("match0") @@ Bundle("match2")
    @@ Submission(<<"a">>, <<"main.c">>) @@ Submission(<<"b">>, <<"main.c">>)
    @@ Submission(<<"c">>, <<"f.c">>)
    @@ Submission(SubmissionDirName(<<"g", " ", "1">>), <<"main.c">>)
    @@ StarterPath :> File("source", <<"starter.c">>)
HealthyDirs ==
    UNION {Prefixes(Dirname(p)) : p \in DOMAIN HealthyFiles(<<>>)}

\* The environments: the healthy one, and each with one thing wrong about the
\* record of groups c and a (match2).  In "pdf_missing" group c has two files,
\* and the PDF rendition of one of them is missing.
Envs == {"healthy", "no_starter", "frame_missing", "bad_link", "pdf_missing", "dir_entry"}
EnvFiles(env, table) ==
    LET h == HealthyFiles(table)
    IN  CASE env = "no_starter" -> RemoveFiles(h, {StarterPath})
          [] env = "frame_missing" -> RemoveFiles(h, {SideFile(MatchFile("match2"), 1)})
          [] env = "bad_link" ->
                [h EXCEPT ![SideFile(MatchFile("match2"), 0)] =
                    Html(<<>>, <<Anchor(<<"other", ".html", "#", "0">>, <<"0">>)>>)]
          [] env = "pdf_missing" ->
                RemoveFiles(h @@ Submission(<<"c">>, <<"g.c">>), {PdfPath(<<"c">>, <<"f.c">>)})
          [] OTHER -> h
EnvDirs(env) ==
    CASE env = "no_starter" -> {d \in HealthyDirs : d[1] # STARTER_FILES_DIR}
      [] env = "dir_entry" -> HealthyDirs \cup {SubmissionPath(<<"c">>, <<"sub">>)}
      [] OTHER -> HealthyDirs

AssembleRows == {HeaderRow, RowAB, RowCA, RowDA, RowTwoCells, RowBadLabelB}
\* the index tables the assembler is tried on: the header row, when there is
\* one, is the first row, as in the service's index
AssembleTables == {t \in Tables(AssembleRows) : \A k \in 2..Len(t) : ~t[k].th}

Init ==
    /\ \E t \in AssembleTables, env \in Envs :
          /\ files = EnvFiles(env, t)
          /\ dirs = EnvDirs(env)
    /\ gen_pos = 0
    /\ gen_state = "fresh"
    /\ yielded = <<>>
    /\ merge = MergeIdle
    /\ force = FALSE
    /\ runs = 0
    /\ pc = "idle"
    /\ case_i = 0
    /\ group_k = 1
    /\ cur = NoRecord
    /\ outcomes = <<>>
    /\ events = <<>>
    /\ stderr = {}
    /\ web = <<>>
    /\ todo = {}
    /\ frames_left = <<>>
    /\ cur_page = <<>>
    /\ fetched = {}
    /\ run_actions = NoRun
    /\ run_i = 0
    /\ invoked = <<>>

Next ==
    \/ \E f \in BOOLEAN : WfrCall(f)
    \/ WfrNext
    \/ WfrMakeCaseDir
    \/ WfrMerge
    \/ WfrCopy
    \/ WfrMembers
    \/ WfrRow

Spec == Init /\ [][Next]_vars

\* ------------------------------------------------- download_moss_report
StartsWith(s, prefix) == Len(s) >= Len(prefix) /\ SubSeq(s, 1, Len(prefix)) = prefix
\* os.path.join(a, b) on strings
PathJoin(a, b) ==
    IF b # <<>> /\ b[1] = "/" THEN b
    ELSE IF a = <<>> \/ a[Len(a)] = "/" THEN a \o b
    ELSE a \o <<"/">> \o b

\* the href of every <a> of a document (find_all('a'))
DocLinks(doc) ==
    IF doc.kind = "index"
    THEN {doc.val.table[r].tds[c].href :
             r \in {k \in 1..Len(doc.val.table) : ~doc.val.table[k].th}, c \in 1..2}
         \cup doc.val.links
    ELSE {doc.val.anchors[k].href : k \in 1..Len(doc.val.anchors)}
\* the src of every <frame> of a document (find_all('frame')), in document order
DocFrames(doc) == IF doc.kind = "index" THEN <<>> ELSE doc.val.frames

NotFoundPage == Html(<<"404">>, <<>>)
EmptyFile == File("empty", <<>>)
\* what requests.get(url) answers when the connection holds
Fetch(w, url) == IF url \in DOMAIN w THEN w[url] ELSE NotFoundPage
DownloadPath(name) == moss_report_download_dir \o <<name>>

\* line 151: the download is skipped when its directory exists and force is off
DlSkips(ds, f) == moss_report_download_dir \in ds /\ ~f

DlAbort ==
    /\ pc' = "idle"
    /\ outcomes' = Append(outcomes, "raised")
DlDone ==
    /\ pc' = "idle"
    /\ outcomes' = Append(outcomes, "done")

\* a new MarkusMoss(force=f) and its download_moss_report(), up to _moss_download
DlCall(f) ==
    /\ pc = "idle"
    /\ runs < MaxRuns
    /\ runs' = runs + 1
    /\ force' = f
    /\ IF DlSkips(dirs, f)
       THEN /\ outcomes' = Append(outcomes, "skipped")
            /\ UNCHANGED <<dirs, pc>>
       ELSE /\ dirs' = MakeDirs(dirs, moss_report_download_dir)
            /\ pc' = "dl_index"
            /\ UNCHANGED outcomes
    /\ UNCHANGED <<files, genVars, merge, case_i, group_k, cur, events, stderr, dlVars, runVars>>

\* one requests.get: the url asked for, why it was asked for ("index", "link" of
\* the index, "frame" of the linked document `parent`), whether the connection
\* held, and the file the answer was written to (<<>>: none)
Request(url, via, parent, ok, saved) ==
    [url |-> url, via |-> via, parent |-> parent, ok |-> ok, saved |-> saved]

\* line 141 with every link of the index kept
FollowedLinksAll(parsed_html, url) == DocLinks(parsed_html)
\* line 141: the links of the index that start with url
FollowedLinks(parsed_html, url) == {u \in DocLinks(parsed_html) : StartsWith(u, url)}

\* lines 138-141: the index is fetched, saved, and its links under url collected
DlIndex ==
    /\ pc = "dl_index"
    /\ \E ok \in BOOLEAN :
          IF ~ok
          THEN /\ DlAbort
               /\ fetched' = fetched \cup {Request(ReportUrl, "index", <<>>, FALSE, <<>>)}
               /\ UNCHANGED <<files, todo>>
          ELSE LET parsed_html == Fetch(web, ReportUrl)
                   path == DownloadPath(<<"index", ".html">>)
                   urls == FollowedLinks(parsed_html, ReportUrl)
               IN  /\ files' = WriteFile(files, path, parsed_html)
                   /\ fetched' = fetched \cup {Request(ReportUrl, "index", <<>>, TRUE, path)}
                   /\ todo' = urls
                   /\ IF urls = {} THEN DlDone
                      ELSE pc' = "dl_page" /\ UNCHANGED outcomes
    /\ UNCHANGED <<dirs, genVars, merge, force, runs, case_i, group_k, cur, events, stderr,
                   web, frames_left, cur_page, runVars>>

\* lines 142-146: one linked document is fetched and saved under its basename
DlPage ==
    /\ pc = "dl_page"
    /\ \E url_ \in todo, ok \in BOOLEAN :
          IF ~ok
          THEN /\ DlAbort
               /\ fetched' = fetched \cup {Request(url_, "link", <<>>, FALSE, <<>>)}
               /\ UNCHANGED <<files, todo, frames_left, cur_page>>
          ELSE LET parsed_html == Fetch(web, url_)
                   path == DownloadPath(Basename(url_))
               IN  /\ files' = WriteFile(files, path, parsed_html)
                   /\ fetched' = fetched \cup {Request(url_, "link", <<>>, TRUE, path)}
                   /\ todo' = todo \ {url_}
                   /\ frames_left' = DocFrames(parsed_html)
                   /\ cur_page' = url_
                   /\ IF DocFrames(parsed_html) # <<>>
                      THEN pc' = "dl_frame" /\ UNCHANGED outcomes
                      ELSE IF todo \ {url_} = {} THEN DlDone
                      ELSE pc' = "dl_page" /\ UNCHANGED outcomes
    /\ UNCHANGED <<dirs, genVars, merge, force, runs, case_i, group_k, cur, events, stderr,
                   web, runVars>>

\* lines 146-148: one frame of the current document; its file is opened for
\* writing before the frame is fetched
DlFrame ==
    /\ pc = "dl_frame"
    /\ LET src_url == Head(frames_left)
           path == DownloadPath(Basename(src_url))
           frame_url == PathJoin(ReportUrl, src_url)
       IN  \E ok \in BOOLEAN :
              /\ fetched' = fetched \cup {Request(frame_url, "frame", cur_page, ok, path)}
              /\ IF ~ok
                 THEN /\ files' = WriteFile(files, path, EmptyFile)
                      /\ DlAbort
                      /\ UNCHANGED frames_left
                 ELSE /\ files' = WriteFile(files, path, Fetch(web, frame_url))
                      /\ frames_left' = Tail(frames_left)
                      /\ IF Tail(frames_left) # <<>>
                         THEN pc' = "dl_frame" /\ UNCHANGED outcomes
                         ELSE IF todo = {} THEN DlDone
                         ELSE pc' = "dl_page" /\ UNCHANGED outcomes
    /\ UNCHANGED <<dirs, genVars, merge, force, runs, case_i, group_k, cur, events, stderr,
                   web, todo, cur_page, runVars>>

\* the service's report: the index at the report url, the documents of match0
\* and match2 below it, a page of the service outside the report, and a
\* document under the report url whose one frame is itself a frameset
ExternalUrl == <<"http:", "/", "/", "moss", "/", "general", "/", "format", ".html">>
NestedUrl == Href(<<"nested", ".html">>)
BundleWeb(ref) ==
    LET b == Bundle(ref)
    IN  [u \in {Href(p[Len(p)]) : p \in DOMAIN b} |->
            b[CHOOSE p \in DOMAIN b : Href(p[Len(p)]) = u]]
Web(table, links) ==
    ReportUrl :> IndexDoc(table, links)
    @@ BundleWeb("match0") @@ BundleWeb("match2")
    @@ ExternalUrl :> Html(<<"format">>, <<>>)
    @@ NestedUrl :> FrameSet(<<"nested">>, << <<"outer", ".html">> >>)
    @@ Href(<<"outer", ".html">>) :> FrameSet(<<"outer">>, << <<"inner", ".html">> >>)
    @@ Href(<<"inner", ".html">>) :> Html(<<"inner">>, <<Anchor(ExternalUrl, <<>>)>>)

\* the index tables of the reports the download is tried on
DownloadTables ==
    {<<>>, <<HeaderRow, RowAB>>, <<RowCA>>, <<HeaderRow, RowAB, RowCA>>, <<RowCA, RowAB, RowAB>>}

InitDownload ==
    /\ \E t \in DownloadTables, links \in SUBSET {ExternalUrl, NestedUrl} :
          web = Web(t, links)
    /\ files = <<>>
    /\ dirs = {moss_report_dir}
    /\ gen_pos = 0
    /\ gen_state = "fresh"
    /\ yielded = <<>>
    /\ merge = MergeIdle
    /\ force = FALSE
    /\ runs = 0
    /\ pc = "idle"
    /\ case_i = 0
    /\ group_k = 1
    /\ cur = NoRecord
    /\ outcomes = <<>>
    /\ events = <<>>
    /\ stderr = {}
    /\ todo = {}
    /\ frames_left = <<>>
    /\ cur_page = <<>>
    /\ fetched = {}
    /\ run_actions = NoRun
    /\ run_i = 0
    /\ invoked = <<>>

NextDownload ==
    \/ \E f \in BOOLEAN : DlCall(f)
    \/ DlIndex
    \/ DlPage
    \/ DlFrame

SpecDownload == InitDownload /\ [][NextDownload]_vars

\* ------------------------------------------------------------------ run
\* lines 31-38: the class attribute ACTIONS (a reserved word here)
MarkusMoss_ACTIONS == <<"download_submission_files", "download_starter_files", "copy_files_to_pdf",
             "run_moss", "download_moss_report", "write_final_report">>
IsAction(name) == \E k \in 1..Len(MarkusMoss_ACTIONS) : MarkusMoss_ACTIONS[k] = name

\* What getattr(self, name) finds on a MarkusMoss object: a pipeline action, a
\* helper method that takes no argument (_print, lines 327-329), a helper
\* method that needs one (_copy_starter_files, line 413), an attribute that is
\* not callable (force, line 54), or nothing.
AttrKind(name) ==
    CASE IsAction(name) -> "action"
      [] name = "_print" -> "helper"
      [] name = "_copy_starter_files" -> "helper_with_args"
      [] name = "force" -> "value"
      [] OTHER -> "missing"

\* the names run() is tried on
RunNames ==
    {MarkusMoss_ACTIONS[k] : k \in 1..Len(MarkusMoss_ACTIONS)}
    \cup {"this_is_not_an_option", "_print", "_copy_starter_files", "force"}
RunArgs == {PyNone} \cup {PyList(l) : l \in UNION {[1..n -> RunNames] : n \in 0..MaxActions}}

\* lines 77-78 with the argument ignored
RunListAlwaysAll(actions) == MarkusMoss_ACTIONS
\* lines 77-78: the list the loop goes over
RunList(actions) == IF actions = PyNone THEN MarkusMoss_ACTIONS ELSE actions.val

RunOver(outcome) ==
    /\ pc' = "idle"
    /\ outcomes' = Append(outcomes, outcome)

\* lines 76-78: a new MarkusMoss() and its run(actions), up to the loop
RunCall(actions) ==
    /\ pc = "idle"
    /\ runs < MaxRuns
    /\ runs' = runs + 1
    /\ run_actions' = [arg |-> actions, list |-> RunList(actions)]
    /\ run_i' = 0
    /\ invoked' = <<>>
    /\ pc' = "run"
    /\ UNCHANGED <<fsVars, genVars, merge, force, case_i, group_k, cur, outcomes, events,
                   stderr, dlVars>>

\* lines 79-80: one turn of the loop, getattr(self, action)(); the action called
\* returns or raises, and nothing in run() catches
RunStep ==
    /\ pc = "run"
    /\ IF run_i = Len(run_actions.list)
       THEN RunOver("done") /\ UNCHANGED <<run_i, invoked>>
       ELSE LET action == run_actions.list[run_i + 1]
                kind == AttrKind(action)
            IN  CASE kind = "missing" ->
                       RunOver("AttributeError") /\ UNCHANGED <<run_i, invoked>>
                  [] kind \in {"value", "helper_with_args"} ->
                       RunOver("TypeError") /\ UNCHANGED <<run_i, invoked>>
                  [] kind = "helper" ->
                       /\ invoked' = Append(invoked, action)
                       /\ run_i' = run_i + 1
                       /\ UNCHANGED <<pc, outcomes>>
                  [] OTHER ->
                       /\ invoked' = Append(invoked, action)
                       /\ \E returns \in BOOLEAN :
                             IF returns
                             THEN run_i' = run_i + 1 /\ UNCHANGED <<pc, outcomes>>
                             ELSE RunOver("Exception") /\ UNCHANGED run_i
    /\ UNCHANGED <<fsVars, genVars, merge, force, runs, case_i, group_k, cur, events,
                   stderr, dlVars, run_actions>>

InitRun ==
    /\ files = <<>>
    /\ dirs = {}
    /\ gen_pos = 0
    /\ gen_state = "fresh"
    /\ yielded = <<>>
    /\ merge = MergeIdle
    /\ force = FALSE
    /\ runs = 0
    /\ pc = "idle"
    /\ case_i = 0
    /\ group_k = 1
    /\ cur = NoRecord
    /\ outcomes = <<>>
    /\ events = <<>>
    /\ stderr = {}
    /\ web = <<>>
    /\ todo = {}
    /\ frames_left = <<>>
    /\ cur_page = <<>>
    /\ fetched = {}
    /\ run_actions = NoRun
    /\ run_i = 0
    /\ invoked = <<>>

NextRun ==
    \/ \E actions \in RunArgs : RunCall(actions)
    \/ RunStep

SpecRun == InitRun /\ [][NextRun]_vars

\* ===================================================== claims: extractor
NonHeaderRows(table) == SelectSeq(table, LAMBDA r : ~r.th)
WellFormedTable(table) == \A k \in 1..Len(table) : table[k] \in WellFormedRows

\* what the labels and the third cell of the well-formed rows say, read off the
\* documents: (group of A, group of B, percent of A, matched lines)
Reported(row) ==
    CASE row = RowAB -> [groupA |-> <<"a">>, groupB |-> <<"b">>, percentA |-> 83, lines |-> 47]
      [] row = RowBA -> [groupA |-> <<"b">>, groupB |-> <<"a">>, percentA |-> 71, lines |-> 12]
      [] row = RowCA -> [groupA |-> <<"c">>, groupB |-> <<"a">>, percentA |-> 100, lines |-> 0]
      [] row = RowDA -> [groupA |-> <<"g", "_", "1">>, groupB |-> <<"a">>, percentA |-> 64,
                         lines |-> 5]

\* C1: on a well-formed table with k non-header rows the extractor never raises,
\* the records received so far are those of the first non-header rows in table
\* order, and an exhausted extractor has yielded exactly k records.
C1_ExactlyKRecordsInRowOrder ==
    LET nh == NonHeaderRows(IndexTable)
    IN  WellFormedTable(IndexTable) =>
            /\ gen_state # "raised"
            /\ Len(yielded) <= Len(nh)
            /\ \A i \in 1..Len(yielded) :
                  /\ yielded[i] = ParseRow(nh[i]).rec
                  /\ yielded[i].group1 = Reported(nh[i]).groupA
                  /\ yielded[i].group2 = Reported(nh[i]).groupB
            /\ gen_state = "exhausted" => Len(yielded) = Len(nh)

\* C1 witness: a header row followed by two different data rows, both extracted
C1_Witness ==
    /\ gen_state = "exhausted"
    /\ Len(IndexTable) = 3
    /\ IndexTable[1].th
    /\ Len(yielded) = 2
    /\ yielded[1].group1 # yielded[2].group1

\* C3 (as claimed): every record carries the groups of the two labels, the
\* integer percent of submission A's label and the integer of the third cell.
C3_RecordFieldsAsClaimed ==
    (gen_state # "raised" /\ WellFormedTable(IndexTable)) =>
        \A i \in 1..Len(yielded) :
            LET said == Reported(NonHeaderRows(IndexTable)[i])
            IN  /\ yielded[i].group1 = said.groupA
                /\ yielded[i].group2 = said.groupB
                /\ yielded[i].similarity = PyInt(said.percentA)
                /\ yielded[i].matched_lines = PyInt(said.lines)

\* C3 (what the code does): the same, except that similarity is the digit
\* string of submission A's percent, not an integer
C3_SimilarityIsDigitString ==
    (gen_state # "raised" /\ WellFormedTable(IndexTable)) =>
        \A i \in 1..Len(yielded) :
            LET said == Reported(NonHeaderRows(IndexTable)[i])
            IN  /\ yielded[i].group1 = said.groupA
                /\ yielded[i].group2 = said.groupB
                /\ yielded[i].similarity = PyStr(NatToStr(said.percentA))
                /\ yielded[i].matched_lines = PyInt(said.lines)

\* ===================================================== claims: assembler
DataRows == IF IsFile(files, OverviewPath) THEN Tail(OverviewRows(files)) ELSE <<>>
\* how the last run that was not skipped ended ("" before any)
RECURSIVE LastReal(_)
LastReal(os) ==
    IF os = <<>> THEN ""
    ELSE IF os[Len(os)] # "skipped" THEN os[Len(os)]
    ELSE LastReal(SubSeq(os, 1, Len(os) - 1))
\* rows with a cell count other than 3 or a label off the grammar
BrokenRows == {RowTwoCells, RowFourCells, RowBadLabelA, RowBadLabelB}
FirstBroken(table) ==
    LET bad == {k \in 1..Len(table) : table[k] \in BrokenRows}
    IN  IF bad = {} THEN 0 ELSE CHOOSE k \in bad : \A j \in bad : k <= j
DataRowsBefore(table, k) == Len(NonHeaderRows(SubSeq(table, 1, k - 1)))
CaseDirNamed(n) == assignment_report_dir \o << <<"case_", Digits[n + 1]>> >>
RowEventsOf(c) == {j \in 1..Len(events) : events[j].stmt = "row" /\ events[j].case = c}

\* C2: when the table has a row with a cell count other than 3 or a label off the
\* grammar, the generator never gets past the first such row: no record is
\* received for it or for a later row, no overview row and no case directory is
\* made for them, and the run that reaches the row ends by raising.
C2_MalformedRowAbortsRun ==
    LET b == FirstBroken(IndexTable)
        good == DataRowsBefore(IndexTable, b)
    IN  b # 0 =>
            /\ gen_pos <= b
            /\ Len(yielded) <= good
            /\ Len(DataRows) <= good
            /\ \A n \in (good + 1)..MaxRows : CaseDirNamed(n) \notin dirs
            /\ gen_pos = b =>
                  /\ gen_state = "raised"
                  /\ pc = "idle"
                  /\ LastReal(outcomes) = "raised"

\* C2 witness: a run that assembled one case, raised on the second row and left
\* a well-formed third row unread
C2_Witness ==
    /\ Len(IndexTable) = 3
    /\ FirstBroken(IndexTable) = 2
    /\ IndexTable[3] \in {RowAB, RowCA}
    /\ gen_state = "raised"
    /\ outcomes = <<"raised">>
    /\ Len(yielded) = 1
    /\ Len(DataRows) = 1

\* C4: once a run of write_final_report has gone through, a call with force off
\* is over in one step that leaves every file and directory as it was (the
\* overview table included).
C4_SecondRunWritesNothing ==
    [][ ( /\ \E k \in 1..Len(outcomes) : outcomes[k] = "done"
          /\ runs' = runs + 1
          /\ ~force' )
        => ( /\ files' = files
             /\ dirs' = dirs
             /\ pc' = "idle"
             /\ outcomes' = Append(outcomes, "skipped") ) ]_vars

\* C4 witness: a first run that wrote two cases, then a skipped second run
C4_Witness ==
    /\ outcomes = <<"done", "skipped">>
    /\ ~force
    /\ Len(DataRows) = 2
    /\ IsFile(files, MossHtml(CaseDir(1)))

\* C5 (as claimed): when a run is over, every record on healthy inputs (groups a
\* and b, match0) has its case directory and its overview row, whatever happened
\* to the records before it.
C5_LaterCasesStillAssembled ==
    (pc = "idle" /\ outcomes # <<>> /\ WellFormedTable(IndexTable)) =>
        LET nh == NonHeaderRows(IndexTable)
        IN  \A n \in 1..Len(nh) :
                nh[n] = RowAB =>
                    /\ CaseDirNamed(n) \in dirs
                    /\ \E k \in 1..Len(DataRows) : DataRows[k][1] = <<"case_", Digits[n + 1]>>

\* C6: every data row of the overview table belongs to a case whose statements
\* ran in order in this run (directory, merged report, both groups' files,
\* membership files) right before the row was written, and whose artifacts
\* exist; a case without its row event has no row.
C6_RowsOnlyForCompletedCases ==
    /\ Len(DataRows) = Cardinality({j \in 1..Len(events) : events[j].stmt = "row"})
    /\ \A j \in 1..Len(events) :
          events[j].stmt = "row" =>
              /\ j >= 6
              /\ [k \in 1..6 |-> events[j - 6 + k].stmt]
                    = <<"mkdir", "merge", "copy", "copy", "members", "row">>
              /\ \A k \in 1..6 : events[j - 6 + k].case = events[j].case
    /\ \A k \in 1..Len(DataRows) :
          \E c \in 0..(MaxRows - 1) :
              /\ DataRows[k][1] = <<"case_", Digits[c + 2]>>
              /\ RowEventsOf(c) # {}
              /\ CaseDirNamed(c + 1) \in dirs
              /\ IsFile(files, CaseDirNamed(c + 1) \o << <<"moss", ".html">> >>)
              /\ Cardinality({p \in DOMAIN files :
                                 /\ Len(p) = 5
                                 /\ SubSeq(p, 1, 3) = CaseDirNamed(c + 1)
                                 /\ p[5] = <<"group_data", ".csv">>}) = 2
    /\ (pc # "row" /\ case_i >= 0 /\ RowEventsOf(case_i) = {}) =>
          \A k \in 1..Len(DataRows) : DataRows[k][1] # <<"case_", Digits[case_i + 2]>>

\* C6 witness: the second case failed while its files were copied, after its
\* merged report had been written; the table holds the first case only
C6_Witness ==
    /\ pc = "idle"
    /\ LastReal(outcomes) = "raised"
    /\ case_i = 1
    /\ IsFile(files, MossHtml(CaseDir(1)))
    /\ Len(DataRows) = 1
    /\ DataRows[1][1] = <<"case_", "1">>

\* C7: the k-th data row of the overview table is that of the k-th record in
\* row order: it is named case_<k> and its groups column is groupA;groupB of the
\* k-th non-header row.  The case in assembly is the last record received, its
\* directory is case_<its 1-based index>, and no statement of case i+1 runs
\* before the row of case i is written.
C7_CasesInRowOrder ==
    LET nh == NonHeaderRows(IndexTable)
    IN  /\ Len(DataRows) <= Len(nh)
        /\ \A k \in 1..Len(DataRows) :
              /\ DataRows[k][1] = <<"case_", Digits[k + 1]>>
              /\ DataRows[k][2] = Reported(nh[k]).groupA \o <<";">> \o Reported(nh[k]).groupB
        /\ pc \notin {"idle", "next"} =>
              /\ case_i + 1 = Len(yielded)
              /\ cur = yielded[case_i + 1]
        /\ \A j \in 1..Len(events) :
              /\ events[j].stmt = "mkdir" => CaseDirNamed(events[j].case + 1) \in dirs
              /\ \A j2 \in j..Len(events) : events[j].case <= events[j2].case
              /\ events[j].case > 0 =>
                    \E j0 \in 1..(j - 1) :
                        events[j0].stmt = "row" /\ events[j0].case = events[j].case - 1

\* C7 witness: a header row, then two records, both assembled
C7_Witness ==
    /\ IndexTable = <<HeaderRow, RowCA, RowAB>>
    /\ LastReal(outcomes) = "done"
    /\ Len(DataRows) = 2
    /\ DataRows[1][2] = <<"c", ";", "a">>
    /\ DataRows[2][1] = <<"case_", "2">>
    /\ DataRows[2][2] = <<"a", ";", "b">>

\* ======================================================== claims: merger
\* the input documents of the merge (never written by it)
SrcTop == files[TopFile(MergeSource)].val.anchors
SrcSide(side) == files[SideFile(MergeSource, side)].val.anchors
Merged == files[MergeDest].val
SideToken(side) == IF side = 0 THEN "0" ELSE "1"
SideOfToken(t) == IF t = "0" THEN 0 ELSE 1
HasId(doc, id) ==
    \E side \in {0, 1} : \E k \in 1..Len(doc.match[side + 1]) : doc.match[side + 1][k].id = id
\* side document `side` defines the jump target `name`
HasName(side, name) == \E k \in 1..Len(SrcSide(side)) : SrcSide(side)[k].name = name
\* out is the merged form of the link `src`, whose href read <ref>-<side>.html#<k>
LinkRewritten(src_href, out) ==
    LET m == LinkRegexMatch(<<"match0">>, src_href)
    IN  m.matched =>
            /\ out.href = <<"#", "match", "-", m.match_file, "-">> \o m.match_num
            /\ out.target = <<"_self">>
            /\ HasName(SideOfToken(m.match_file), m.match_num) => HasId(Merged, Tail(out.href))

\* C8: in the document the Report Merger writes, every named jump target n of
\* side document s is an element with id match-<s>-<n>, and every link that read
\* <ref>-<side>.html#<k> (navigation table and both side bodies) now has href
\* #match-<side>-<k> and target _self, so that it resolves to an element of the
\* merged document whenever its original target existed.
C8_MergedAnchorsResolve ==
    IsFile(files, MergeDest) =>
        /\ \A side \in {0, 1} : \A k \in 1..Len(SrcSide(side)) :
              SrcSide(side)[k].name # <<>> =>
                  /\ Merged.match[side + 1][k].id
                        = <<"match", "-", SideToken(side), "-">> \o SrcSide(side)[k].name
                  /\ HasId(Merged, <<"match", "-", SideToken(side), "-">> \o SrcSide(side)[k].name)
        /\ Len(Merged.top) = Len(SrcTop)
        /\ \A k \in 1..Len(SrcTop) : LinkRewritten(Basename(SrcTop[k].href), Merged.top[k])
        /\ \A side \in {0, 1} :
              /\ Len(Merged.match[side + 1]) = Len(SrcSide(side))
              /\ \A k \in 1..Len(SrcSide(side)) :
                    LinkRewritten(SrcSide(side)[k].href, Merged.match[side + 1][k])

\* C8 witness: a merged document in which a navigation link and a link of side 0
\* pointing into side 1 both resolve to named targets
C8_Witness ==
    /\ merge.phase = "done"
    /\ IsFile(files, MergeDest)
    /\ \E k \in 1..Len(Merged.top) :
          /\ Merged.top[k].target = <<"_self">>
          /\ HasId(Merged, Tail(Merged.top[k].href))
    /\ \E k \in 1..Len(Merged.match[1]) :
          /\ Merged.match[1][k].href = <<"#", "match", "-", "1", "-", "0">>
          /\ Merged.match[1][k].id = <<"match", "-", "0", "-", "0">>
          /\ HasId(Merged, <<"match", "-", "1", "-", "0">>)

\* a frame file of the merge is missing
FrameMissing == \E f \in FramePaths(MergeSource) : ~IsFile(files, f)
\* a link of the navigation table or of a side document is not <ref>-<side>.html#<n>
LinkMalformed ==
    \/ /\ IsFile(files, TopFile(MergeSource))
       /\ \E k \in 1..Len(SrcTop) :
             ~LinkRegexMatch(<<"match0">>, Basename(SrcTop[k].href)).matched
    \/ \E side \in {0, 1} :
          /\ IsFile(files, SideFile(MergeSource, side))
          /\ \E k \in 1..Len(SrcSide(side)) :
                /\ SrcSide(side)[k].href # <<>>
                /\ ~LinkRegexMatch(<<"match0">>, SrcSide(side)[k].href).matched

\* C9: with a frame file missing or a link off the pattern, the merge never
\* reaches its write: nothing exists at the destination, in any state, and once
\* the merge has stopped it has stopped by raising.
C9_FailedMergeWritesNothing ==
    (FrameMissing \/ LinkMalformed) =>
        /\ ~IsFile(files, MergeDest)
        /\ merge.phase \notin {"write", "done"}
        /\ ~ENABLED NextMerge => merge.phase = "raised"

\* C9 witnesses: a merge that raised on a malformed link in side 1, after the
\* title, the navigation table and side 0 were already merged in memory
C9_Witness ==
    /\ merge.phase = "raised"
    /\ merge.exc = "AttributeError"
    /\ ~FrameMissing
    /\ merge.template.h3 = <<1, 0>>
    /\ ~IsFile(files, MergeDest)

\* ===================================================== claims: download
\* what a complete download of the report holds: the index, every document the
\* index links to under the report url, and every frame of those documents
RequiredDownloads ==
    LET index == web[ReportUrl]
        linked == {u \in DocLinks(index) : StartsWith(u, ReportUrl)}
    IN  {<<ReportUrl, <<"index", ".html">> >>}
        \cup {<<u, Basename(u)>> : u \in linked}
        \cup UNION {{<<ReportUrl \o <<"/">> \o web[u].val.frames[k], web[u].val.frames[k]>> :
                        k \in 1..Len(web[u].val.frames)} : u \in linked}
DownloadComplete ==
    \A d \in RequiredDownloads :
        /\ IsFile(files, DownloadPath(d[2]))
        /\ files[DownloadPath(d[2])] = web[d[1]]

\* C10 (as claimed): a download that was skipped (directory present, force off)
\* found a complete download in the directory.
C10_SkippedDownloadIsComplete ==
    (outcomes # <<>> /\ outcomes[Len(outcomes)] = "skipped") => DownloadComplete


\* the linked documents of the index that the download may ask for
ReportLinks == {u \in DocLinks(web[ReportUrl]) : StartsWith(u, ReportUrl)}
\* the request was answered and its answer written right inside the download
\* directory, under the name `name`
SavedAs(r, name) ==
    r.ok => /\ r.saved = moss_report_download_dir \o <<name>>
            /\ r.saved \in DOMAIN files
InIndexLinks(u) == u \in DocLinks(web[ReportUrl])

\* C11: every request of a download is for the index at the report url, for a
\* link of the index that starts with the report url, or for a frame of such a
\* linked document; a link of the index outside the report url, a link found in
\* another document and a frame of a frame are never asked for; every answer is
\* written under its basename right inside the download directory.
C11_OnlyReportDocumentsFetched ==
    \A r \in fetched :
        /\ \/ /\ r.via = "index"
              /\ r.url = ReportUrl
              /\ SavedAs(r, <<"index", ".html">>)
           \/ /\ r.via = "link"
              /\ InIndexLinks(r.url)
              /\ StartsWith(r.url, ReportUrl)
              /\ SavedAs(r, Basename(r.url))
           \/ /\ r.via = "frame"
              /\ r.parent \in ReportLinks
              /\ \E q \in fetched : q.via = "link" /\ q.ok /\ q.url = r.parent
              /\ \E j \in 1..Len(web[r.parent].val.frames) :
                    r.url = ReportUrl \o <<"/">> \o web[r.parent].val.frames[j]
              /\ SavedAs(r, Basename(r.url))
        /\ r.url # ExternalUrl
        /\ r.url # Href(<<"inner", ".html">>)
        /\ \A u \in ReportLinks : \A j \in 1..Len(web[u].val.anchors) :
              web[u].val.anchors[j].href # <<>> => r.url # web[u].val.anchors[j].href

\* C11 witness: a finished download of an index that links a match, a page
\* outside the report url and a document whose frame is itself a frameset: the
\* frame was fetched and saved, its own frame and the outside page were not
C11_Witness ==
    /\ pc = "idle"
    /\ outcomes = <<"done">>
    /\ {ExternalUrl, NestedUrl, Href(<<"match0", ".html">>)} \subseteq DocLinks(web[ReportUrl])
    /\ \E r \in fetched :
          r.url = Href(<<"outer", ".html">>) /\ r.via = "frame" /\ r.ok
    /\ files[DownloadPath(<<"outer", ".html">>)] = web[Href(<<"outer", ".html">>)]
    /\ \E r \in fetched : r.url = Href(<<"match0", "-", "1", ".html">>) /\ r.ok
    /\ DownloadPath(<<"inner", ".html">>) \notin DOMAIN files
    /\ DownloadPath(<<"format", ".html">>) \notin DOMAIN files


\* ================================================ claims: copied files
\* the regular files glob finds below a group's submission directory
SourceFiles(group) == {p \in GlobGroup(files, dirs, group) : IsFile(files, p)}
GroupOfEvent(e) == IF e.group = 1 THEN yielded[e.case + 1].group1 ELSE yielded[e.case + 1].group2
OrgDest(c, p) == CaseDirNamed(c + 1) \o <<p[2], <<"org">> >> \o Tail(Tail(p))
PdfSource(p) == <<PDF_SUBMISSION_FILES_DIR>> \o FileToPdf(Tail(p))
PdfDest(c, p) == CaseDirNamed(c + 1) \o <<p[2], <<"pdf">> >> \o Tail(FileToPdf(Tail(p)))
\* the frame files of the record's match document are all there / well linked
FramesThere(rec) == \A f \in FramePaths(rec.match_file) : IsFile(files, f)
MergeInputsFine(rec) == ~CopyMossReport(files, rec.match_file, <<>>).raised
NoDirectoryEntries == \A d \in dirs : ~(Len(d) > 2 /\ d[1] = SUBMISSION_FILES_DIR)

\* C12: once a group's files have been copied into a case, every source file of
\* the group is at <group>/org/<relativePath>, its PDF rendition is at
\* <group>/pdf/... when there is one, and is named on stderr and left out when
\* there is none; a missing rendition ends no run: with the frame files of every
\* record in place, a run over a well-formed table ends normally with a row for
\* every record.  A record with a frame file missing gets no merged report and
\* no row.
C12_MissingPdfLoggedNotFatal ==
    /\ \A j \in 1..Len(events) :
          events[j].stmt = "copy" =>
              \A p \in SourceFiles(GroupOfEvent(events[j])) :
                  /\ IsFile(files, OrgDest(events[j].case, p))
                  /\ files[OrgDest(events[j].case, p)] = files[p]
                  /\ IF IsFile(files, PdfSource(p))
                     THEN /\ IsFile(files, PdfDest(events[j].case, p))
                          /\ files[PdfDest(events[j].case, p)] = files[PdfSource(p)]
                     ELSE /\ PdfSource(p) \in stderr
                          /\ ~IsFile(files, PdfDest(events[j].case, p))
    /\ LET nh == NonHeaderRows(IndexTable)
       IN  /\ ( /\ pc = "idle" /\ outcomes # <<>>
                /\ WellFormedTable(IndexTable)
                /\ NoDirectoryEntries
                /\ \A n \in 1..Len(nh) :
                      MergeInputsFine(ParseRow(nh[n]).rec) )
              => /\ LastReal(outcomes) = "done"
                 /\ Len(DataRows) = Len(nh)
           /\ WellFormedTable(IndexTable) =>
                 \A n \in 1..Len(nh) :
                    ~FramesThere(ParseRow(nh[n]).rec) =>
                        /\ ~IsFile(files, CaseDirNamed(n) \o << <<"moss", ".html">> >>)
                        /\ \A k \in 1..Len(DataRows) :
                              DataRows[k][1] # <<"case_", Digits[n + 1]>>

\* C12 witness: group c has two files and the PDF of f.c is missing; the run
\* ended normally, f.c and g.c are in c/org, g.c.pdf is in c/pdf, f.c.pdf is
\* named on stderr, group a was copied after c and the case has its row
C12_Witness ==
    /\ IndexTable = <<RowCA>>
    /\ outcomes = <<"done">>
    /\ ~IsFile(files, PdfPath(<<"c">>, <<"f.c">>))
    /\ stderr = {PdfPath(<<"c">>, <<"f.c">>)}
    /\ IsFile(files, CaseDirNamed(1) \o << <<"c">>, <<"org">>, <<"f.c">> >>)
    /\ IsFile(files, CaseDirNamed(1) \o << <<"c">>, <<"org">>, <<"g.c">> >>)
    /\ IsFile(files, CaseDirNamed(1) \o << <<"c">>, <<"pdf">>, <<"g.c", ".pdf">> >>)
    /\ ~IsFile(files, CaseDirNamed(1) \o << <<"c">>, <<"pdf">>, <<"f.c", ".pdf">> >>)
    /\ IsFile(files, CaseDirNamed(1) \o << <<"a">>, <<"org">>, <<"main.c">> >>)
    /\ Len(DataRows) = 1


\* ============================================================ claims: run
\* the six actions in the order the class declares them
DeclaredOrder ==
    <<"download_submission_files", "download_starter_files", "copy_files_to_pdf",
      "run_moss", "download_moss_report", "write_final_report">>
IsDeclared(name) == \E k \in 1..Len(DeclaredOrder) : DeclaredOrder[k] = name
\* what run() was asked to do in the call under way or last over
Asked == IF run_actions.arg = PyNone THEN DeclaredOrder ELSE run_actions.arg.val
AskedActionsOnly == \A k \in 1..Len(Asked) : IsDeclared(Asked[k])
LastOutcome == outcomes[Len(outcomes)]
RunIsOver == pc = "idle" /\ runs > 0

\* C13 (as claimed): a run over a list of action names (or over no argument)
\* that is over has invoked exactly the names of the list, in order, once per
\* occurrence.
C13_InvokesExactlyNamedActions ==
    (RunIsOver /\ AskedActionsOnly) => invoked = Asked

\* C13 (amended): run() invokes the named actions in the order given, once per
\* occurrence and no other, up to the first action that raises; that action's
\* exception leaves run() and the actions after it are not invoked.  When none
\* raises, exactly the named actions were invoked; with no argument the list is
\* the six actions in declared order.
C13_InvokesNamedActionsUntilOneRaises ==
    (runs > 0 /\ AskedActionsOnly) =>
        /\ Len(invoked) <= Len(Asked)
        /\ invoked = SubSeq(Asked, 1, Len(invoked))
        /\ pc = "run" => Len(invoked) = run_i
        /\ RunIsOver =>
              /\ LastOutcome \in {"done", "Exception"}
              /\ LastOutcome = "done" => invoked = Asked
              /\ LastOutcome = "Exception" => Len(invoked) = run_i + 1

\* C13 witness: run() without an argument went through all six actions
C13_Witness ==
    /\ RunIsOver
    /\ run_actions.arg = PyNone
    /\ LastOutcome = "done"
    /\ invoked = DeclaredOrder

\* the first name of the list that is not an action (0: none)
FirstUnknown ==
    LET bad == {k \in 1..Len(Asked) : ~IsDeclared(Asked[k])}
    IN  IF bad = {} THEN 0 ELSE CHOOSE k \in bad : \A j \in bad : k <= j
\* the loop got as far as the k-th name of the list
Reached(k) == k <= run_i + 1

\* C14 (as claimed): a run that got to a name that is not a pipeline action
\* stopped there with an AttributeError, and called nothing for that name.
C14_UnknownNameRaisesAttributeError ==
    (RunIsOver /\ FirstUnknown # 0 /\ Reached(FirstUnknown)) =>
        /\ LastOutcome = "AttributeError"
        /\ run_i = FirstUnknown - 1
        /\ \A k \in 1..Len(invoked) : IsDeclared(invoked[k])

\* C14 (what the code does): the same for the names that are no attribute of
\* the object at all
C14_MissingAttributeRaises ==
    (RunIsOver /\ FirstUnknown # 0 /\ Reached(FirstUnknown)
       /\ Asked[FirstUnknown] = "this_is_not_an_option") =>
        /\ LastOutcome = "AttributeError"
        /\ run_i = FirstUnknown - 1
        /\ \A k \in 1..Len(invoked) : IsDeclared(invoked[k])


\* ================================================ claims: per-case skipping
\* C15 (as claimed): the skip is decided case by case, so a run without force
\* that ends without an error leaves no record with healthy inputs (groups a and
\* b, match0) unassembled: its case directory and merged report exist, whatever
\* an earlier run did.
C15_NonForcedRunAssemblesMissingCases ==
    ( /\ pc = "idle" /\ outcomes # <<>>
      /\ ~force
      /\ outcomes[Len(outcomes)] # "raised"
      /\ WellFormedTable(IndexTable) ) =>
        LET nh == NonHeaderRows(IndexTable)
        IN  \A n \in 1..Len(nh) :
                nh[n] = RowAB =>
                    /\ CaseDirNamed(n) \in dirs
                    /\ IsFile(files, CaseDirNamed(n) \o << <<"moss", ".html">> >>)


\* ================================================= claims: membership files
\* the platform's groups whose submission directory bears the name `dir`
PlatformGroupsOf(dir) ==
    {k \in 1..Len(GroupData) : SubmissionDirName(GroupData[k].group_name) = dir}
\* the rows the platform's data give for the group of that directory: one per
\* member, under the fixed columns
RosterOf(dir) ==
    LET g == GroupData[CHOOSE k \in PlatformGroupsOf(dir) : TRUE]
    IN  [m \in 1..Len(g.members) |->
            [group_name |-> g.group_name,
             user_name |-> <<"u">> \o NatToStr(g.members[m]),
             first_name |-> <<"f">>, last_name |-> <<"l">>, email |-> <<"e">>,
             id_number |-> NatToStr(g.members[m])]]
Columns == <<"group_name", "user_name", "first_name", "last_name", "email", "id_number">>
MembershipFile(c, dir) == CaseDirNamed(c + 1) \o <<dir, <<"group_data", ".csv">> >>
GroupsOfCase(c) == {yielded[c + 1].group1, yielded[c + 1].group2}
HasSpace(name) == \E k \in 1..Len(name) : name[k] = " "

\* C16 (as claimed): once the membership files of a case are written, the file
\* of each of its groups holds the fixed columns and then one row per member the
\* platform reports for the group whose submission directory has that name.
C16_MembershipFileListsPlatformMembers ==
    \A j \in 1..Len(events) :
        events[j].stmt = "members" =>
            \A dir \in GroupsOfCase(events[j].case) :
                /\ IsFile(files, MembershipFile(events[j].case, dir))
                /\ files[MembershipFile(events[j].case, dir)].val = <<Columns>> \o RosterOf(dir)

\* C16 (what the code does): the same for the groups whose platform name has no
\* space; a group whose name has one gets the columns and no member
C16_MembersListedUnlessNameHasSpace ==
    \A j \in 1..Len(events) :
        events[j].stmt = "members" =>
            \A dir \in GroupsOfCase(events[j].case) :
                LET g == GroupData[CHOOSE k \in PlatformGroupsOf(dir) : TRUE]
                IN  /\ IsFile(files, MembershipFile(events[j].case, dir))
                    /\ files[MembershipFile(events[j].case, dir)].val =
                          IF HasSpace(g.group_name) THEN <<Columns>>
                          ELSE <<Columns>> \o RosterOf(dir)

=============================================================================
